---- MODULE Spec2Model ----
(***************************************************************************)
(* Verification model of the network graph assembler (ICEgraph.CKTgraph)   *)
(* and of the line-code matrix builder (libLineCode.LineCode).             *)
(*                                                                         *)
(* Coordinates are integers in units of half the tolerance of              *)
(* Vertex.__eq__ (tol = 1e-3), so that two grid points one unit apart are  *)
(* "the same spot" and two grid points two units apart are not.            *)
(***************************************************************************)
EXTENDS Integers, Sequences, FiniteSets, TLC

\* ---------------------------------------------------------------- bounds
MaxOps == 3
MaxX == 2
MaxLines == 2
MaxSegs == 3
MaxLoads == 2
MaxRows == 3

\* tol = 1e-3 of Vertex.__eq__, in grid units of 0.5e-3
Tol == 2

VARIABLES vertices, edges, odd_bucket, adj_matrix, hist,
          df, n, pc, Zcarson, Cmatrix, nphases, LineCode_Data, LineCode_DataMod,
          qpc, layer, lineobjs, loadsdata, txsdata, matched,
          oh_given, oh_lvlayer, service_LV

gvars == <<vertices, edges, odd_bucket, adj_matrix, hist>>
lvars == <<df, n, pc, Zcarson, Cmatrix, nphases, LineCode_Data, LineCode_DataMod>>
avars == <<layer, lineobjs>>
mvars == <<loadsdata, txsdata, matched>>
svars == <<oh_given, oh_lvlayer, service_LV>>
qvars == <<qpc, layer, lineobjs, loadsdata, txsdata, matched, oh_given, oh_lvlayer, service_LV>>
vars == <<vertices, edges, odd_bucket, adj_matrix, hist, df, n, pc, Zcarson, Cmatrix,
          nphases, LineCode_Data, LineCode_DataMod, qpc, layer, lineobjs,
          loadsdata, txsdata, matched, oh_given, oh_lvlayer, service_LV>>

\* ================================================================ graph

\* The classes of point entities; LVload and MVload are Loads.
Kinds == {"Vertex", "Bus", "Node", "Load", "Transformer"}

\* Identifiers a caller gives to a point entity; idcode defaults to None.
\* add_vertex reads the identifier of a Load only (the key of the odd bucket),
\* so the callers of the model vary it for Loads alone.
IDs == {"None", "a"}
IdsOf(k) == IF k = "Load" THEN IDs ELSE {"a"}

XS == 0 .. MaxX

\* A point entity: class, coordinates, identifier and object identity.
Vertex(k, x, y, idcode, o) ==
    [kind |-> k, X1 |-> x, Y1 |-> y, ICEobjID |-> idcode, oid |-> o]

\* Node(x, y, idcode)
Node(x, y, idcode, o) == Vertex("Node", x, y, idcode, o)

\* Vertex.__sub__ followed by Vertex.__abs__, squared
AbsSub2(a, b) ==
    (a.X1 - b.X1) * (a.X1 - b.X1) + (a.Y1 - b.Y1) * (a.Y1 - b.Y1)

\* Vertex.__eq__: abs(self - other) < tol
Eq(a, b) == AbsSub2(a, b) < Tol * Tol

\* list.index(v) with Vertex.__eq__: the first position that equals v, 0 if none
index(V, v) ==
    IF \E i \in 1 .. Len(V) : Eq(V[i], v)
    THEN CHOOSE i \in 1 .. Len(V) :
            /\ Eq(V[i], v)
            /\ \A j \in 1 .. (i - 1) : ~Eq(V[j], v)
    ELSE 0

\* v in list
contains(V, v) == index(V, v) # 0

\* list.remove(vold): drops the first element that equals vold
remove(V, vold) ==
    LET i == index(V, vold)
    IN  IF i = 0 THEN V
        ELSE [k \in 1 .. (Len(V) - 1) |-> IF k < i THEN V[k] ELSE V[k + 1]]

hevier_types == {"Transformer", "Load"}
flyweight_types == {"Bus", "Node"}

\* type(v) == Vertex or isinstance(v, flyweight_types)
IsLight(v) == v.kind = "Vertex" \/ v.kind \in flyweight_types

\* dict item assignment self._odd_bucket[IDname] = v
SetItem(B, key, v) ==
    [k \in (DOMAIN B) \cup {key} |-> IF k = key THEN v ELSE B[k]]

\* CKTgraph.add_vertex: the point collection, the odd bucket and the branch taken
add_vertex(V, B, v) ==
    LET i == index(V, v)
        vold == V[i]
        kept(tag) == [vertices |-> V, odd_bucket |-> B, outcome |-> tag]
        replaced(tag) ==
            [vertices |-> Append(remove(V, vold), v), odd_bucket |-> B, outcome |-> tag]
        appended == [vertices |-> Append(V, v), odd_bucket |-> B, outcome |-> "appended"]
    IN  IF IsLight(v)
        THEN IF i # 0
             THEN IF vold.kind \in hevier_types \/ vold.kind = "Bus"
                  THEN kept("discarded")
                  ELSE IF vold.kind = "Node"
                  THEN replaced("replaced")
                  ELSE IF vold.kind = "Vertex" /\ v.kind = "Bus"
                  THEN replaced("replaced")
                  ELSE kept("discarded")
             ELSE appended
        ELSE IF i # 0
             THEN IF IsLight(vold)
                  THEN replaced("replaced")
                  ELSE IF v.kind = "Transformer"
                  THEN replaced("overrode")
                  ELSE [vertices |-> V,
                        odd_bucket |-> SetItem(B, v.ICEobjID, v),
                        outcome |-> "bucket"]
             ELSE appended

\* One endpoint of add_edge that appends its Node whatever is stored
resolve_append(V, node) ==
    [vertices |-> Append(V, node), v |-> node]

\* One endpoint of add_edge: the stored entity at that spot, or the new Node appended
resolve(V, node) ==
    LET i == index(V, node)
    IN  IF i # 0
        THEN [vertices |-> V, v |-> V[i]]
        ELSE [vertices |-> Append(V, node), v |-> node]

\* CKTgraph.add_edge
add_edge(V, E, chainObj, o1, o2) ==
    LET from_node == Node(chainObj.X1, chainObj.Y1, "None", o1)
        to_node == Node(chainObj.X2, chainObj.Y2, "None", o2)
        r1 == resolve(V, from_node)
        r2 == resolve(r1.vertices, to_node)
    IN  [vertices |-> r2.vertices,
         edges |-> Append(E, [ICEobjID |-> chainObj.ICEobjID,
                              _from_vertex |-> r1.v,
                              _to_vertex |-> r2.v])]

\* np.zeros((n_V, n_V), dtype=int)
zeros(nV) == [i \in 1 .. nV |-> [j \in 1 .. nV |-> 0]]

\* Adj[i, j] += 1
Incr(Adj, i, j) == [Adj EXCEPT ![i][j] = @ + 1]

\* Adj[i, j] += 1 without the mirrored increment
TouchOneWay(Adj, i, j) == Incr(Adj, i, j)

\* Adj[i, j] += 1; Adj[j, i] += 1
Touch(Adj, i, j) == Incr(Incr(Adj, i, j), j, i)

\* The loop of adjacency_matrix over the connectors k .. Len(E); list.index
\* raises ValueError when no stored entity equals the endpoint.
RECURSIVE AdjLoop(_, _, _, _)
AdjLoop(V, E, k, Adj) ==
    IF k > Len(E)
    THEN [ok |-> TRUE, Adj |-> Adj]
    ELSE LET i == index(V, E[k]._from_vertex)
             j == index(V, E[k]._to_vertex)
         IN  IF i = 0 \/ j = 0
             THEN [ok |-> FALSE, Adj |-> <<>>]
             ELSE AdjLoop(V, E, k + 1, Touch(Adj, i, j))

\* CKTgraph.adjacency_matrix
adjacency_matrix(V, E) == AdjLoop(V, E, 1, zeros(Len(V)))

\* adj[key].append(v) on a dict held as a function from identifiers to lists
DictAppend(adj, key, v) == [adj EXCEPT ![key] = Append(@, v)]

\* The loop of adjacency_dict over the connectors k .. Len(E); adj[...] raises
\* KeyError when no stored entity has the identifier of the endpoint.
RECURSIVE AdjDictLoop(_, _, _)
AdjDictLoop(E, k, adj) ==
    IF k > Len(E)
    THEN [ok |-> TRUE, adj |-> adj]
    ELSE LET from_v == E[k]._from_vertex
             to_v == E[k]._to_vertex
         IN  IF from_v.ICEobjID \notin DOMAIN adj \/ to_v.ICEobjID \notin DOMAIN adj
             THEN [ok |-> FALSE, adj |-> <<>>]
             ELSE AdjDictLoop(E, k + 1,
                      DictAppend(DictAppend(adj, from_v.ICEobjID, to_v),
                                 to_v.ICEobjID, from_v))

\* CKTgraph.adjacency_dict: one empty list per identifier of a stored entity,
\* then the loop over the connectors
adjacency_dict(V, E) ==
    AdjDictLoop(E, 1, [key \in {V[i].ICEobjID : i \in 1 .. Len(V)} |-> <<>>])

\* ---------------------------------------------------------------- actions

\* Object identities of the entities created by the next call
NextOid == 2 * Len(hist) + 1

\* The line-code builder is idle while the graph is assembled.
LIdle ==
    /\ df = <<>>
    /\ n = 0
    /\ pc = "idle"
    /\ Zcarson = <<>>
    /\ Cmatrix = <<>>
    /\ nphases = 0
    /\ LineCode_Data = <<>>
    /\ LineCode_DataMod = <<>>

\* No layer of lines is being added to the graph.
AIdle ==
    /\ layer = <<>>
    /\ lineobjs = <<>>

\* No layers of loads and transformers are being matched.
MIdle ==
    /\ loadsdata = <<>>
    /\ txsdata = <<>>
    /\ matched = "None"

\* No layer of overhead lines is being split.
SIdle ==
    /\ oh_given = <<>>
    /\ oh_lvlayer = <<>>
    /\ service_LV = <<>>

\* No layer of the circuit tables is being processed.
QIdle ==
    /\ qpc = "idle"
    /\ AIdle
    /\ MIdle
    /\ SIdle

Init ==
    /\ vertices = <<>>
    /\ edges = <<>>
    /\ odd_bucket = <<>>
    /\ adj_matrix = <<>>
    /\ hist = <<>>
    /\ LIdle
    /\ QIdle

AddVertex ==
    /\ Len(hist) < MaxOps
    /\ \E k \in Kinds, x \in XS :
       \E idcode \in IdsOf(k) :
          LET v == Vertex(k, x, 0, idcode, NextOid)
              r == add_vertex(vertices, odd_bucket, v)
          IN  /\ vertices' = r.vertices
              /\ odd_bucket' = r.odd_bucket
              /\ hist' = Append(hist, [op |-> "add_vertex", v |-> v,
                                       outcome |-> r.outcome,
                                       pre |-> vertices,
                                       nV |-> Len(r.vertices)])
    /\ UNCHANGED <<edges, adj_matrix>>
    /\ UNCHANGED lvars
    /\ UNCHANGED qvars

AddEdge ==
    /\ Len(hist) < MaxOps
    /\ \E x1 \in XS, x2 \in XS :
          LET chainObj == [ICEobjID |-> "e", X1 |-> x1, Y1 |-> 0, X2 |-> x2, Y2 |-> 0]
              r == add_edge(vertices, edges, chainObj, NextOid, NextOid + 1)
          IN  /\ vertices' = r.vertices
              /\ edges' = r.edges
              /\ hist' = Append(hist, [op |-> "add_edge", v |-> chainObj,
                                       outcome |-> "stored",
                                       pre |-> vertices,
                                       nV |-> Len(r.vertices)])
    /\ UNCHANGED <<odd_bucket, adj_matrix>>
    /\ UNCHANGED lvars
    /\ UNCHANGED qvars

\* Reading the property stores the matrix in _adj_matrix unless index raised.
AdjacencyMatrix ==
    /\ Len(hist) < MaxOps
    /\ LET r == adjacency_matrix(vertices, edges)
       IN  /\ adj_matrix' = IF r.ok THEN r.Adj ELSE adj_matrix
           /\ hist' = Append(hist, [op |-> "adjacency_matrix", v |-> <<>>,
                                    outcome |-> IF r.ok THEN "returned" ELSE "ValueError",
                                    pre |-> vertices,
                                    nV |-> Len(vertices)])
    /\ UNCHANGED <<vertices, edges, odd_bucket>>
    /\ UNCHANGED lvars
    /\ UNCHANGED qvars

\* adjacency_dict returns the dict, or raises KeyError, and stores nothing.
AdjacencyDict ==
    /\ Len(hist) < MaxOps
    /\ LET r == adjacency_dict(vertices, edges)
       IN  hist' = Append(hist, [op |-> "adjacency_dict", v |-> <<>>,
                                outcome |-> IF r.ok THEN "returned" ELSE "KeyError",
                                pre |-> vertices,
                                nV |-> Len(vertices)])
    /\ UNCHANGED <<vertices, edges, odd_bucket, adj_matrix>>
    /\ UNCHANGED lvars
    /\ UNCHANGED qvars

Next == AddVertex \/ AddEdge \/ AdjacencyMatrix

Spec == Init /\ [][Next]_vars

\* The graph read through adjacency_dict
NextDict == AddVertex \/ AddEdge \/ AdjacencyDict

SpecDict == Init /\ [][NextDict]_vars

\* ================================================================ line codes

\* Conductors in matrix order: phase R, phase S, phase T, neutral (rows 0..3
\* of the source are rows 1..4 here).
Cond == 1 .. 4

\* A measurement of the pair (i, j): distinct per pair and per kind of
\* measurement, zero when the pair is not measured.
Measured(base, i, j, S, mutual) ==
    IF i \in S /\ j \in S /\ (mutual \/ i = j) THEN base + 10 * i + j ELSE 0

\* One row of the input table: resistances over the conductors rp, reactances
\* over xp, capacitances over cp, with or without the mutual terms.
Line(rp, xp, cp, mutual) ==
    [R_RR |-> Measured(0, 1, 1, rp, mutual), X_RR |-> Measured(100, 1, 1, xp, mutual),
     R_RS |-> Measured(0, 1, 2, rp, mutual), X_RS |-> Measured(100, 1, 2, xp, mutual),
     R_RT |-> Measured(0, 1, 3, rp, mutual), X_RT |-> Measured(100, 1, 3, xp, mutual),
     R_SS |-> Measured(0, 2, 2, rp, mutual), X_SS |-> Measured(100, 2, 2, xp, mutual),
     R_ST |-> Measured(0, 2, 3, rp, mutual), X_ST |-> Measured(100, 2, 3, xp, mutual),
     R_TT |-> Measured(0, 3, 3, rp, mutual), X_TT |-> Measured(100, 3, 3, xp, mutual),
     R_RN |-> Measured(0, 1, 4, rp, mutual), X_RN |-> Measured(100, 1, 4, xp, mutual),
     R_SN |-> Measured(0, 2, 4, rp, mutual), X_SN |-> Measured(100, 2, 4, xp, mutual),
     R_TN |-> Measured(0, 3, 4, rp, mutual), X_TN |-> Measured(100, 3, 4, xp, mutual),
     R_NN |-> Measured(0, 4, 4, rp, mutual), X_NN |-> Measured(100, 4, 4, xp, mutual),
     C_RR |-> Measured(200, 1, 1, cp, mutual),
     C_RS |-> Measured(200, 1, 2, cp, mutual),
     C_RT |-> Measured(200, 1, 3, cp, mutual),
     C_SS |-> Measured(200, 2, 2, cp, mutual),
     C_ST |-> Measured(200, 2, 3, cp, mutual),
     C_TT |-> Measured(200, 3, 3, cp, mutual),
     C_RN |-> Measured(200, 1, 4, cp, mutual),
     C_SN |-> Measured(200, 2, 4, cp, mutual),
     C_TN |-> Measured(200, 3, 4, cp, mutual),
     C_NN |-> Measured(200, 4, 4, cp, mutual)]

Lines ==
    {Line(rp, xp, cp, mutual) :
        rp \in SUBSET Cond, xp \in SUBSET Cond, cp \in SUBSET Cond, mutual \in BOOLEAN}

\* A complex number re + 1j*im
Complex(re, im) == <<re, im>>

\* np.zeros([4,4], dtype=complex) and the sixteen "+=" that fill Zcarson,
\* followed by the "+=" under the comment Cnn
zcarson(line) ==
    << << Complex(line.R_RR, line.X_RR), Complex(line.R_RS, line.X_RS),
          Complex(line.R_RT, line.X_RT), Complex(line.R_RN, line.X_RN) >>,
       << Complex(line.R_RS, line.X_RS), Complex(line.R_SS, line.X_SS),
          Complex(line.R_ST, line.X_ST), Complex(line.R_SN, line.X_SN) >>,
       << Complex(line.R_RT, line.X_RT), Complex(line.R_ST, line.X_ST),
          Complex(line.R_TT, line.X_TT), Complex(line.R_TN, line.X_TN) >>,
       << Complex(line.R_RN, line.X_RN), Complex(line.R_SN, line.X_SN),
          Complex(line.R_TN, line.X_TN),
          Complex(line.R_NN + line.C_NN, line.X_NN) >> >>

\* np.zeros([4,4], dtype=complex) and the fifteen "+=" that fill Cmatrix
cmatrix(line) ==
    << << Complex(line.C_RR, 0), Complex(line.C_RS, 0),
          Complex(line.C_RT, 0), Complex(line.C_RN, 0) >>,
       << Complex(line.C_RS, 0), Complex(line.C_SS, 0),
          Complex(line.C_ST, 0), Complex(line.C_SN, 0) >>,
       << Complex(line.C_RT, 0), Complex(line.C_ST, 0),
          Complex(line.C_TT, 0), Complex(line.C_TN, 0) >>,
       << Complex(line.C_RN, 0), Complex(line.C_SN, 0),
          Complex(line.C_TN, 0), Complex(0, 0) >> >>

\* all(element == 0 for element in row)
all_zero(row) == \A k \in 1 .. Len(row) : row[k] = Complex(0, 0)

\* The indices of the rows that are entirely zero, in increasing order
deleted_rows_index(M) == {i \in 1 .. Len(M) : all_zero(M[i])}

\* The subsequence of s at the positions not in idx
RECURSIVE Drop(_, _, _)
Drop(s, idx, k) ==
    IF k > Len(s) THEN <<>>
    ELSE IF k \in idx THEN Drop(s, idx, k + 1)
    ELSE <<s[k]>> \o Drop(s, idx, k + 1)

\* np.delete(M, idx, axis=0)
delete_rows(M, idx) == Drop(M, idx, 1)

\* As many leading columns removed as there are indices
delete_cols_leading(M, idx) ==
    [i \in 1 .. Len(M) |-> SubSeq(M[i], Cardinality(idx) + 1, Len(M[i]))]

\* np.delete(M, idx, axis=1)
delete_cols(M, idx) == [i \in 1 .. Len(M) |-> Drop(M[i], idx, 1)]

\* The reduction without the column step
reduce_rows_only(M) == delete_rows(M, deleted_rows_index(M))

\* Store the zero rows of M, then remove those rows and the columns of the same index
reduce(M) ==
    LET idx == deleted_rows_index(M)
    IN  delete_cols(delete_rows(M, idx), idx)

\* ---------------------------------------------------------------- text

\* A string is the sequence of its characters; the text str() gives for one
\* number is a single item of the sequence.

\* s[i:i+len(old)] == old (positions from 1)
StartsWith(s, i, old) ==
    i + Len(old) - 1 <= Len(s) /\ SubSeq(s, i, i + Len(old) - 1) = old

\* The scan of str.replace from position i on: the text up to the leftmost
\* occurrence of old is kept, new is put for the occurrence, and the scan
\* goes on after it
RECURSIVE replace_from(_, _, _, _)
replace_from(s, i, old, new) ==
    LET M == {j \in i .. Len(s) : StartsWith(s, j, old)}
    IN  IF M = {} THEN SubSeq(s, i, Len(s))
        ELSE LET t == CHOOSE t \in M : \A j \in M : t <= j
             IN  SubSeq(s, i, t - 1) \o new \o replace_from(s, t + Len(old), old, new)

\* str.replace(old, new)
replace(s, old, new) == replace_from(s, 1, old, new)

\* str.split(sep) for a separator of one character
RECURSIVE split(_, _)
split(s, sep) ==
    IF \A i \in 1 .. Len(s) : s[i] # sep
    THEN <<s>>
    ELSE LET i == CHOOSE i \in 1 .. Len(s) :
                      s[i] = sep /\ \A j \in 1 .. (i - 1) : s[j] # sep
         IN  <<SubSeq(s, 1, i - 1)>> \o split(SubSeq(s, i + 1, Len(s)), sep)

\* token in list
has(list, token) == \E i \in 1 .. Len(list) : list[i] = token

\* The concatenation of the strings of a list
RECURSIVE concat(_)
concat(list) == IF list = <<>> THEN <<>> ELSE Head(list) \o concat(Tail(list))

\* The dictionary arguments of set_LibraryType, in insertion order
arguments ==
    << << <<"S", "U", "B">>, <<"S", "U", "B", "_">> >>,
       << <<"M", "T">>, <<"M", "T", "_">> >>,
       << <<"B", "T">>, <<"B", "T", "_">> >>,
       << <<":">>, <<"_">> >> >>

\* set_LibraryType: every turn of the loop assigns libname.replace(k, v) of
\* the name as given, so the value returned is that of the last turn.
RECURSIVE LibnameLoop(_, _, _)
LibnameLoop(libname, k, Libname) ==
    IF k > Len(arguments) THEN Libname
    ELSE LibnameLoop(libname, k + 1, replace(libname, arguments[k][1], arguments[k][2]))

set_LibraryType(libname) == LibnameLoop(libname, 1, <<>>)

\* ---------------------------------------------------------------- phases

\* zeros_list.count(0) of [R_RR, R_RS, R_RT]
zeros_count(line) ==
    Cardinality({k \in 1 .. 3 : <<line.R_RR, line.R_RS, line.R_RT>>[k] = 0})

\* The inference without the triplex case
phases_by_zeros_plain(libnameMod, line, bound) ==
    LET c == zeros_count(line)
    IN  IF c = 1 THEN 2
        ELSE IF c = 2 THEN 1
        ELSE IF c = 0 THEN 3
        ELSE bound

\* The branch "else" of the phase assignment: the count of zeros among R_RR,
\* R_RS and R_RT; no branch assigns when the three are zero.
phases_by_zeros(libnameMod, line, bound) ==
    LET Ltype == libnameMod[Len(libnameMod)]
        c == zeros_count(line)
    IN  IF c = 1 /\ Ltype = <<"3">> THEN 3
        ELSE IF c = 1 THEN 2
        ELSE IF c = 2 THEN 1
        ELSE IF c = 0 THEN 3
        ELSE bound

\* The phase tokens read with the single letters tested first
phases_by_token_single_first(libnameMod, line, bound) ==
    IF has(libnameMod, <<"A">>) \/ has(libnameMod, <<"B">>) \/ has(libnameMod, <<"C">>)
    THEN 1
    ELSE IF has(libnameMod, <<"A", "B">>) \/ has(libnameMod, <<"A", "C">>)
            \/ has(libnameMod, <<"B", "C">>)
    THEN 2
    ELSE IF has(libnameMod, <<"A", "B", "C">>)
    THEN 3
    ELSE phases_by_zeros(libnameMod, line, bound)

\* The assignment of nphases; bound is the value the name nphases holds when
\* the record is reached (0: the name is not bound yet).
phases(libnameMod, line, bound) ==
    IF has(libnameMod, <<"A", "B", "C">>)
    THEN 3
    ELSE IF has(libnameMod, <<"A", "B">>) \/ has(libnameMod, <<"A", "C">>)
            \/ has(libnameMod, <<"B", "C">>)
    THEN 2
    ELSE IF has(libnameMod, <<"A">>) \/ has(libnameMod, <<"B">>) \/ has(libnameMod, <<"C">>)
    THEN 1
    ELSE phases_by_zeros(libnameMod, line, bound)

\* ---------------------------------------------------------------- serialization

\* str(list(values)).strip("]").strip("[").replace(",", ""): the values
\* separated by one space
RECURSIVE join(_)
join(values) ==
    IF values = <<>> THEN <<>>
    ELSE IF Len(values) = 1 THEN <<ToString(values[1])>>
    ELSE <<ToString(values[1]), " ">> \o join(Tail(values))

\* np.real(row)
real(row) == [k \in 1 .. Len(row) |-> row[k][1]]

\* The rows with the values up to the diagonal only
clean_rows_lower(M) == [i \in 1 .. Len(M) |-> join(SubSeq(real(M[i]), 1, i))]

\* clean_rows_R and clean_rows_C: the real parts of every row of the matrix
clean_rows(M) == [i \in 1 .. Len(M) |-> join(real(M[i]))]

\* clean_rows_X: built with np.real as well
clean_rows_X(M) == [i \in 1 .. Len(M) |-> join(real(M[i]))]

\* One turn of the loops that build rows_linecode_R, _X and _C; a row is told
\* from the first and the last one by its text.
row_linecode(clean, row) ==
    IF Len(clean) = 1 THEN <<"[", " ">> \o row \o <<" ", "]">>
    ELSE IF row = clean[1] THEN <<"[", " ">> \o row \o <<" ">>
    ELSE IF row = clean[Len(clean)] THEN <<"|", " ">> \o row \o <<" ", "]">>
    ELSE <<"|", " ">> \o row \o <<" ", "|">>

rows_linecode(clean) == concat([i \in 1 .. Len(clean) |-> row_linecode(clean, clean[i])])

\* The loop over clean_rows_C reads clean_rows_R[-2] for a row that is neither
\* the first nor the last one: IndexError when clean_rows_R has fewer than two rows.
raises_IndexError(clean_C, clean_R) ==
    /\ Len(clean_C) # 1
    /\ Len(clean_R) < 2
    /\ \E i \in 1 .. Len(clean_C) :
          clean_C[i] # clean_C[1] /\ clean_C[i] # clean_C[Len(clean_C)]

\* linecode_matrix_R
linecode_matrix_R(line, np, Z) ==
    <<"New", " ", "Linecode.">> \o replace(line.LibraryType, <<" ">>, <<>>)
        \o <<" ", "nphases=", ToString(np), " ", "units=km", "\n">>
        \o <<"~", " ", "rmatrix", " ", "=", " ">> \o rows_linecode(clean_rows(Z))
        \o <<" ", " ", "\n">>

\* linecode_matrix_X
linecode_matrix_X(Z) ==
    <<"~", " ", "xmatrix", " ", "=", " ">> \o rows_linecode(clean_rows_X(Z))
        \o <<" ", " ", "\n">>

\* The block without the cmatrix line
linecode_matrix_C_always(line, C) ==
    <<"~", " ", "normamps=", ToString(line.IrLimit1), " ", "\n">>

\* linecode_matrix_C
linecode_matrix_C(line, C) ==
    IF Len(C) # 0
    THEN <<"~", " ", "cmatrix", " ", "=", " ">> \o rows_linecode(clean_rows(C))
            \o <<"\n", "~", " ", "normamps=", ToString(line.IrLimit1), " ", "\n">>
    ELSE <<"~", " ", "normamps=", ToString(line.IrLimit1), " ", "\n">>

\* lineCode_Matrix
lineCode_Matrix(line, np, Z, C) ==
    linecode_matrix_R(line, np, Z) \o linecode_matrix_X(Z)
        \o linecode_matrix_C(line, C) \o <<"\n">>

\* The clean-up of one block in get_LineCode
clean_up(linecode) ==
    replace(replace(replace(linecode, <<"|", "|">>, <<"|">>),
                    <<"|", "[">>, <<"|">>),
            <<" ", " ", " ">>, <<" ", "]">>)

\* ---------------------------------------------------------------- actions

\* The graph is empty while line codes are built.
GIdle ==
    /\ vertices = <<>>
    /\ edges = <<>>
    /\ odd_bucket = <<>>
    /\ adj_matrix = <<>>
    /\ hist = <<>>

\* Library names of the rows of the table
BT_ABC == <<"B", "T", "_", "A", "B", "C">>
MT_AC == <<"M", "T", "_", "A", "C">>
BT_B == <<"B", "T", "_", "B">>
BT_3 == <<"B", "T", "_", "3">>
BT_6 == <<"B", "T", "_", "6">>
SUB_A == <<"S", "U", "B", "_", "A">>
MTABC == <<"M", "T", "A", "B", "C">>
L_BT_1_0_A_ABC == <<"L", ":", "B", "T", "_", "1", " ", "0", "_", "A", "_", "A", "B", "C">>

LibraryTypes == {BT_ABC, MT_AC, BT_B, BT_3, BT_6, SUB_A, MTABC, L_BT_1_0_A_ABC}

\* One row of the table: the measurements with the library name and the
\* current rating
Row(name, ir, line) == [LibraryType |-> name, IrLimit1 |-> ir] @@ line

\* The measurements of the rows of a table of several rows: no conductor,
\* phase R alone, phases R and S, three phases and neutral, the last one with
\* or without capacitances
FewLines ==
    {Line({}, {}, {}, TRUE), Line({1}, {1}, {}, TRUE), Line({1, 2}, {1, 2}, {}, TRUE),
     Line(Cond, Cond, {}, TRUE), Line(Cond, Cond, {1, 4}, TRUE)}

\* The current rating of a row
IrLimit1(line) == 300 + zeros_count(line)

Rows == {Row(name, IrLimit1(l), l) : name \in LibraryTypes, l \in FewLines}

\* get_LineCode is called with a table of one row of library type BT_ABC.
InitLC ==
    /\ GIdle
    /\ QIdle
    /\ df \in {<<Row(BT_ABC, IrLimit1(l), l)>> : l \in Lines}
    /\ n = 1
    /\ pc = "select"
    /\ Zcarson = <<>>
    /\ Cmatrix = <<>>
    /\ nphases = 0
    /\ LineCode_Data = <<>>
    /\ LineCode_DataMod = <<>>

\* get_LineCode is called with a table of one to MaxLines rows.
InitDSS ==
    /\ GIdle
    /\ QIdle
    /\ df \in UNION {[1 .. m -> Rows] : m \in 1 .. MaxLines}
    /\ n = 1
    /\ pc = "select"
    /\ Zcarson = <<>>
    /\ Cmatrix = <<>>
    /\ nphases = 0
    /\ LineCode_Data = <<>>
    /\ LineCode_DataMod = <<>>

\* The loop reaches row n: rows without a token BT or MT are passed over, the
\* others get their number of phases.
Select ==
    /\ pc = "select"
    /\ n <= Len(df)
    /\ LET libnameMod == split(set_LibraryType(df[n].LibraryType), "_")
       IN  IF has(libnameMod, <<"B", "T">>) \/ has(libnameMod, <<"M", "T">>)
           THEN /\ nphases' = phases(libnameMod, df[n], nphases)
                /\ n' = n
                /\ pc' = "assemble"
           ELSE /\ nphases' = nphases
                /\ n' = n + 1
                /\ pc' = IF n + 1 <= Len(df) THEN "select" ELSE "return"
    /\ UNCHANGED <<df, Zcarson, Cmatrix, LineCode_Data, LineCode_DataMod>>
    /\ UNCHANGED gvars
    /\ UNCHANGED qvars

\* The 4x4 matrices of the current row are filled.
Assemble ==
    /\ pc = "assemble"
    /\ n <= Len(df)
    /\ Zcarson' = zcarson(df[n])
    /\ Cmatrix' = cmatrix(df[n])
    /\ pc' = "reduce"
    /\ UNCHANGED <<df, n, nphases, LineCode_Data, LineCode_DataMod>>
    /\ UNCHANGED gvars
    /\ UNCHANGED qvars

\* Zero rows and their columns are removed from each matrix.
Reduce ==
    /\ pc = "reduce"
    /\ Zcarson' = reduce(Zcarson)
    /\ Cmatrix' = reduce(Cmatrix)
    /\ pc' = "serialize"
    /\ UNCHANGED <<df, n, nphases, LineCode_Data, LineCode_DataMod>>
    /\ UNCHANGED gvars
    /\ UNCHANGED qvars

\* The block of the row is built and appended, and the loop moves to the next
\* row; after the last row the list is returned. Formatting nphases raises
\* UnboundLocalError when no row has bound it yet.
NextLine ==
    /\ pc = "serialize"
    /\ IF nphases = 0
       THEN /\ pc' = "UnboundLocalError"
            /\ UNCHANGED <<n, LineCode_Data>>
       ELSE IF raises_IndexError(clean_rows(Cmatrix), clean_rows(Zcarson))
       THEN /\ pc' = "IndexError"
            /\ UNCHANGED <<n, LineCode_Data>>
       ELSE /\ LineCode_Data' =
                  Append(LineCode_Data, lineCode_Matrix(df[n], nphases, Zcarson, Cmatrix))
            /\ n' = n + 1
            /\ pc' = IF n + 1 <= Len(df) THEN "select" ELSE "return"
    /\ UNCHANGED <<df, Zcarson, Cmatrix, nphases, LineCode_DataMod>>
    /\ UNCHANGED gvars
    /\ UNCHANGED qvars

\* get_LineCode cleans every block up and writes them to the output file.
GetLineCode ==
    /\ pc = "return"
    /\ LineCode_DataMod' = [k \in 1 .. Len(LineCode_Data) |-> clean_up(LineCode_Data[k])]
    /\ pc' = "done"
    /\ UNCHANGED <<df, n, Zcarson, Cmatrix, nphases, LineCode_Data>>
    /\ UNCHANGED gvars
    /\ UNCHANGED qvars

\* The pairs of conductors a row of the table has a measurement for
Pairs == {q \in Cond \X Cond : q[1] <= q[2]}

\* A measurement of the pair (i, j) when the pair is among those measured
Valued(base, i, j, P) == IF <<i, j>> \in P THEN base + 10 * i + j ELSE 0

\* One row of the input table with resistance, reactance and capacitance
\* measured for the pairs of P and zero for the others
PatternLine(P) ==
    [R_RR |-> Valued(0, 1, 1, P), X_RR |-> Valued(100, 1, 1, P), C_RR |-> Valued(200, 1, 1, P),
     R_RS |-> Valued(0, 1, 2, P), X_RS |-> Valued(100, 1, 2, P), C_RS |-> Valued(200, 1, 2, P),
     R_RT |-> Valued(0, 1, 3, P), X_RT |-> Valued(100, 1, 3, P), C_RT |-> Valued(200, 1, 3, P),
     R_SS |-> Valued(0, 2, 2, P), X_SS |-> Valued(100, 2, 2, P), C_SS |-> Valued(200, 2, 2, P),
     R_ST |-> Valued(0, 2, 3, P), X_ST |-> Valued(100, 2, 3, P), C_ST |-> Valued(200, 2, 3, P),
     R_TT |-> Valued(0, 3, 3, P), X_TT |-> Valued(100, 3, 3, P), C_TT |-> Valued(200, 3, 3, P),
     R_RN |-> Valued(0, 1, 4, P), X_RN |-> Valued(100, 1, 4, P), C_RN |-> Valued(200, 1, 4, P),
     R_SN |-> Valued(0, 2, 4, P), X_SN |-> Valued(100, 2, 4, P), C_SN |-> Valued(200, 2, 4, P),
     R_TN |-> Valued(0, 3, 4, P), X_TN |-> Valued(100, 3, 4, P), C_TN |-> Valued(200, 3, 4, P),
     R_NN |-> Valued(0, 4, 4, P), X_NN |-> Valued(100, 4, 4, P), C_NN |-> Valued(200, 4, 4, P)]

PatternLines == {PatternLine(P) : P \in SUBSET Pairs}

\* get_LineCode is called with a table of one row of library type BT_ABC
\* that has measurements for any set of pairs of conductors.
InitPairs ==
    /\ GIdle
    /\ QIdle
    /\ df \in {<<Row(BT_ABC, IrLimit1(l), l)>> : l \in PatternLines}
    /\ n = 1
    /\ pc = "select"
    /\ Zcarson = <<>>
    /\ Cmatrix = <<>>
    /\ nphases = 0
    /\ LineCode_Data = <<>>
    /\ LineCode_DataMod = <<>>

NextLC == Select \/ Assemble \/ Reduce \/ NextLine \/ GetLineCode

SpecLC == InitLC /\ [][NextLC]_vars

SpecDSS == InitDSS /\ [][NextLC]_vars

SpecPairs == InitPairs /\ [][NextLC]_vars

\* ================================================================ graph claims

\* Override precedence: Transformer > Load > Bus > generic Vertex > Node
Rank(v) ==
    CASE v.kind = "Transformer" -> 5
      [] v.kind = "Load" -> 4
      [] v.kind = "Bus" -> 3
      [] v.kind = "Vertex" -> 2
      [] v.kind = "Node" -> 1

\* v is, as an object, an element of the point collection
Stored(v) == \E i \in 1 .. Len(vertices) : vertices[i].oid = v.oid

OnlyAddVertex == \A k \in 1 .. Len(hist) : hist[k].op = "add_vertex"

\* The endpoints of all stored connectors, one entry per connector end
Endpoints ==
    [k \in 1 .. (2 * Len(edges)) |->
        IF k <= Len(edges) THEN edges[k]._from_vertex
        ELSE edges[k - Len(edges)]._to_vertex]

RECURSIVE SumSeq(_)
SumSeq(s) == IF s = <<>> THEN 0 ELSE Head(s) + SumSeq(Tail(s))

\* C1: no two distinct stored point entities lie within the tolerance of each other.
C1_NoTwoWithinTolerance ==
    \A i, j \in 1 .. Len(vertices) : i # j => ~Eq(vertices[i], vertices[j])

\* C2: when add_vertex is given a candidate within tolerance of a stored
\* entity of strictly different precedence (Transformer > Load > Bus > Vertex
\* > Node), then after the call the higher of the two is kept in the point
\* collection and the lower one is not (states reached by add_vertex alone).
C2_PriorityMonotonicity ==
    LET k == Len(hist)
    IN  (k >= 1 /\ OnlyAddVertex) =>
            \A i \in 1 .. Len(hist[k].pre) :
                LET s == hist[k].pre[i]
                    v == hist[k].v
                    hi == IF Rank(s) > Rank(v) THEN s ELSE v
                    lo == IF Rank(s) > Rank(v) THEN v ELSE s
                IN  (Eq(s, v) /\ Rank(s) # Rank(v)) => (Stored(hi) /\ ~Stored(lo))

\* C3: both endpoints of every stored connector are present in the point
\* collection (membership as list membership decides it, by Vertex.__eq__).
C3_EndpointsStored ==
    \A k \in 1 .. Len(edges) :
        /\ contains(vertices, edges[k]._from_vertex)
        /\ contains(vertices, edges[k]._to_vertex)

\* C4: a second add_vertex with the same coordinates and type as the call
\* before it leaves the size of the point collection as the first call left it,
\* and exactly one stored entity at that location.
C4_DedupIdempotence ==
    LET k == Len(hist)
    IN  (/\ k >= 2
         /\ hist[k].op = "add_vertex"
         /\ hist[k - 1].op = "add_vertex"
         /\ hist[k].v.kind = hist[k - 1].v.kind
         /\ hist[k].v.X1 = hist[k - 1].v.X1
         /\ hist[k].v.Y1 = hist[k - 1].v.Y1)
        => /\ Len(vertices) = hist[k - 1].nV
           /\ Cardinality({i \in 1 .. Len(vertices) : Eq(vertices[i], hist[k].v)}) = 1

\* C5: every Load refused by add_vertex is held in the odd bucket, and the
\* bucket has as many entries as Loads were refused.
C5_NoSilentLoss ==
    OnlyAddVertex =>
        LET refused == {k \in 1 .. Len(hist) : hist[k].outcome = "bucket"}
        IN  /\ \A k \in refused :
                  \E key \in DOMAIN odd_bucket : odd_bucket[key].oid = hist[k].v.oid
            /\ Cardinality(DOMAIN odd_bucket) = Cardinality(refused)

\* C6: the matrix adjacency_matrix returns is square, its side is the number
\* of stored point entities, and it is symmetric.
C6_AdjacencySymmetry ==
    LET r == adjacency_matrix(vertices, edges)
        nV == Len(vertices)
    IN  r.ok =>
            /\ Len(r.Adj) = nV
            /\ \A i \in 1 .. nV : Len(r.Adj[i]) = nV
            /\ \A i, j \in 1 .. nV : r.Adj[i][j] = r.Adj[j][i]

\* C6 witness: a matrix is returned that counts a connector between two
\* different stored entities.
C6_Witness ==
    LET r == adjacency_matrix(vertices, edges)
    IN  /\ r.ok
        /\ \E i, j \in 1 .. Len(vertices) : i # j /\ r.Adj[i][j] > 0

\* C7: the sum of row i of the adjacency matrix is the number of connector
\* endpoints that are the i-th stored point entity, with multiplicity.
C7_DegreeConsistency ==
    LET r == adjacency_matrix(vertices, edges)
    IN  r.ok =>
            \A i \in 1 .. Len(vertices) :
                SumSeq(r.Adj[i]) =
                    Cardinality({k \in 1 .. Len(Endpoints) : Eq(Endpoints[k], vertices[i])})

\* ================================================================ line-code claims

\* The measurements of the pair of conductors (a, b), whatever the order
Pair(a, b) == IF a <= b THEN <<a, b>> ELSE <<b, a>>

Resistance(line, a, b) ==
    CASE Pair(a, b) = <<1, 1>> -> line.R_RR
      [] Pair(a, b) = <<1, 2>> -> line.R_RS
      [] Pair(a, b) = <<1, 3>> -> line.R_RT
      [] Pair(a, b) = <<1, 4>> -> line.R_RN
      [] Pair(a, b) = <<2, 2>> -> line.R_SS
      [] Pair(a, b) = <<2, 3>> -> line.R_ST
      [] Pair(a, b) = <<2, 4>> -> line.R_SN
      [] Pair(a, b) = <<3, 3>> -> line.R_TT
      [] Pair(a, b) = <<3, 4>> -> line.R_TN
      [] Pair(a, b) = <<4, 4>> -> line.R_NN

Reactance(line, a, b) ==
    CASE Pair(a, b) = <<1, 1>> -> line.X_RR
      [] Pair(a, b) = <<1, 2>> -> line.X_RS
      [] Pair(a, b) = <<1, 3>> -> line.X_RT
      [] Pair(a, b) = <<1, 4>> -> line.X_RN
      [] Pair(a, b) = <<2, 2>> -> line.X_SS
      [] Pair(a, b) = <<2, 3>> -> line.X_ST
      [] Pair(a, b) = <<2, 4>> -> line.X_SN
      [] Pair(a, b) = <<3, 3>> -> line.X_TT
      [] Pair(a, b) = <<3, 4>> -> line.X_TN
      [] Pair(a, b) = <<4, 4>> -> line.X_NN

Capacitance(line, a, b) ==
    CASE Pair(a, b) = <<1, 1>> -> line.C_RR
      [] Pair(a, b) = <<1, 2>> -> line.C_RS
      [] Pair(a, b) = <<1, 3>> -> line.C_RT
      [] Pair(a, b) = <<1, 4>> -> line.C_RN
      [] Pair(a, b) = <<2, 2>> -> line.C_SS
      [] Pair(a, b) = <<2, 3>> -> line.C_ST
      [] Pair(a, b) = <<2, 4>> -> line.C_SN
      [] Pair(a, b) = <<3, 3>> -> line.C_TT
      [] Pair(a, b) = <<3, 4>> -> line.C_TN
      [] Pair(a, b) = <<4, 4>> -> line.C_NN

\* The rows of M that are not entirely zero
NonZeroRows(M) == {i \in 1 .. Len(M) : \E k \in 1 .. Len(M[i]) : M[i][k] # Complex(0, 0)}

\* The a-th smallest element of a set of numbers
Nth(S, a) == CHOOSE i \in S : Cardinality({j \in S : j < i}) = a - 1

\* Mr is M4 restricted to its rows that are not entirely zero and to the
\* columns of the same indices, values and order kept
IsReductionOf(Mr, M4) ==
    LET K == NonZeroRows(M4)
        m == Cardinality(K)
    IN  /\ Len(Mr) = m
        /\ \A a \in 1 .. m :
              /\ Len(Mr[a]) = m
              /\ \A b \in 1 .. m : Mr[a][b] = M4[Nth(K, a)][Nth(K, b)]

\* C8: the reduction drops from the assembled 4x4 impedance matrix exactly the
\* rows that are entirely zero and the columns of the same index, and likewise,
\* independently, from the assembled capacitance matrix; what remains keeps its
\* values and order (one all-zero row leaves a 3x3 matrix).
C8_ReductionSoundness ==
    pc = "serialize" =>
        /\ IsReductionOf(Zcarson, zcarson(df[n]))
        /\ IsReductionOf(Cmatrix, cmatrix(df[n]))

\* C8 witness: exactly one row of the impedance matrix was entirely zero and
\* the reduced matrix is 3x3, while the capacitance matrix lost other rows.
C8_Witness ==
    /\ pc = "serialize"
    /\ Cardinality(NonZeroRows(zcarson(df[n]))) = 3
    /\ Len(Zcarson) = 3
    /\ Len(Zcarson[1]) = 3
    /\ Len(Cmatrix) = 2

\* C9: every entry (a, b) of the assembled 4x4 impedance matrix is the
\* resistance + i*reactance of the pair (a, b) of the record, and equals
\* entry (b, a).
C9_ImpedanceEntries ==
    pc = "reduce" =>
        \A a, b \in Cond :
            /\ Zcarson[a][b] = Complex(Resistance(df[n], a, b), Reactance(df[n], a, b))
            /\ Zcarson[a][b] = Zcarson[b][a]

\* C10: every entry (a, b) of the assembled 4x4 capacitance matrix is the
\* capacitance of the pair (a, b) of the record, the neutral-neutral entry
\* being C_NN, and equals entry (b, a).
C10_CapacitanceEntries ==
    pc = "reduce" =>
        \A a, b \in Cond :
            /\ Cmatrix[a][b] = Complex(Capacitance(df[n], a, b), 0)
            /\ Cmatrix[a][b] = Cmatrix[b][a]

\* ================================================================ block claims

\* The block appended last
LastBlock == LineCode_Data[Len(LineCode_Data)]

\* The last block of LineCode_Data was built from the matrices Zcarson and
\* Cmatrix as they are now: a block has been appended and the next row has not
\* been assembled since.
Emitted ==
    /\ LineCode_Data # <<>>
    /\ pc \in {"select", "assemble", "return", "done"}

\* The lines of a block
LinesOf(block) == split(block, "\n")

\* The line of a block that starts with "~ <label>", <<>> if there is none
LineOf(block, label) ==
    LET L == LinesOf(block)
        K == {k \in 1 .. Len(L) : Len(L[k]) >= 3 /\ L[k][3] = label}
    IN  IF K = {} THEN <<>> ELSE L[CHOOSE k \in K : \A j \in K : k <= j]

\* How many times the item occurs in the text
Count(text, item) == Cardinality({k \in 1 .. Len(text) : text[k] = item})

IsBracket(t) == t \in {"[", "]", "|"}
IsBlank(t) == t = " "
NotBlank(t) == ~IsBlank(t)
NotEmpty(g) == g # <<>>

\* The rows written in a matrix line "~ label = ...": the runs of values
\* between brackets and row separators
RowsOf(mline) ==
    LET body == SubSeq(mline, 7, Len(mline))
        marked == [k \in 1 .. Len(body) |-> IF IsBracket(body[k]) THEN "|" ELSE body[k]]
    IN  SelectSeq(split(SelectSeq(marked, NotBlank), "|"), NotEmpty)

\* The texts of the real parts, and of the imaginary parts, of a matrix, row by row
RealTexts(M) == [i \in 1 .. Len(M) |-> [k \in 1 .. Len(M[i]) |-> ToString(M[i][k][1])]]
ImagTexts(M) == [i \in 1 .. Len(M) |-> [k \in 1 .. Len(M[i]) |-> ToString(M[i][k][2])]]

\* C11: in an emitted block the rmatrix line lists the real parts and the
\* xmatrix line lists the imaginary parts of the reduced impedance matrix,
\* row by row.
C11_MatrixLines ==
    Emitted =>
        /\ RowsOf(LineOf(LastBlock, "rmatrix")) = RealTexts(Zcarson)
        /\ RowsOf(LineOf(LastBlock, "xmatrix")) = ImagTexts(Zcarson)

\* The tokens of a library name: its parts between the separators "_" and ":"
Tokens(name) == split(replace(name, <<":">>, <<"_">>), "_")

HasABC(T) == has(T, <<"A", "B", "C">>)
HasTwoLetters(T) == has(T, <<"A", "B">>) \/ has(T, <<"A", "C">>) \/ has(T, <<"B", "C">>)
HasOneLetter(T) == has(T, <<"A">>) \/ has(T, <<"B">>) \/ has(T, <<"C">>)
HasPhaseToken(T) == HasABC(T) \/ HasTwoLetters(T) \/ HasOneLetter(T)

\* C12: the number of phases of a row whose library name has a phase-letter
\* token is set from the token, whatever the resistances: 3 for ABC, else 2
\* for AB, AC or BC, else 1 for A, B or C.
C12_PhaseFromToken ==
    pc = "assemble" =>
        LET T == Tokens(df[n].LibraryType)
        IN  /\ HasABC(T) => nphases = 3
            /\ (~HasABC(T) /\ HasTwoLetters(T)) => nphases = 2
            /\ (~HasABC(T) /\ ~HasTwoLetters(T) /\ HasOneLetter(T)) => nphases = 1

\* C12 witness: a row with token AC and no resistance measured has 2 phases.
C12_Witness ==
    /\ pc = "assemble"
    /\ df[n].LibraryType = MT_AC
    /\ zeros_count(df[n]) = 3
    /\ nphases = 2

\* C13: the number of phases of a row whose library name has no phase-letter
\* token comes from the number of zeros among R_RR, R_RS and R_RT: 3 for no
\* zero, 2 for one zero (3 when the last token of the name is "3"), 1 for two zeros.
C13_PhaseFromZeros ==
    (pc = "assemble" /\ ~HasPhaseToken(Tokens(df[n].LibraryType))) =>
        LET T == Tokens(df[n].LibraryType)
            c == zeros_count(df[n])
        IN  /\ c = 0 => nphases = 3
            /\ (c = 1 /\ T[Len(T)] # <<"3">>) => nphases = 2
            /\ (c = 1 /\ T[Len(T)] = <<"3">>) => nphases = 3
            /\ c = 2 => nphases = 1

\* C13 witness: a triplex row with one zero has 3 phases.
C13_Witness ==
    /\ pc = "assemble"
    /\ df[n].LibraryType = BT_3
    /\ zeros_count(df[n]) = 1
    /\ nphases = 3

\* A row no branch of the phase assignment handles
Unmatched(line) ==
    /\ ~HasPhaseToken(Tokens(line.LibraryType))
    /\ zeros_count(line) = 3

\* C14: a row with no phase-letter token and R_RR, R_RS and R_RT all zero does
\* not make get_linecodes raise, and its number of phases is left without a value.
C14_UnmatchedDoesNotRaise ==
    \A k \in 1 .. Len(df) :
        (Unmatched(df[k]) /\ n = k) =>
            /\ pc # "UnboundLocalError"
            /\ pc \in {"assemble", "reduce", "serialize"} => nphases = 0

\* C15: the block a row emits has exactly one normamps line, which carries the
\* IrLimit1 of the row, and has a cmatrix line exactly when the reduced
\* capacitance matrix has at least one row.
C15_NormampsAndCmatrix ==
    [][Len(LineCode_Data') = Len(LineCode_Data) + 1 =>
          LET block == LineCode_Data'[Len(LineCode_Data')]
          IN  /\ Count(block, "normamps=") = 1
              /\ LineOf(block, "normamps=")
                    = <<"~", " ", "normamps=", ToString(df[n].IrLimit1), " ">>
              /\ Count(block, "cmatrix") = (IF Len(Cmatrix) >= 1 THEN 1 ELSE 0)]_vars

\* C15 witness: a block with a cmatrix line has been emitted for a row whose
\* reduced capacitance matrix has two rows.
C15_Witness ==
    /\ Emitted
    /\ Len(Cmatrix) = 2
    /\ Count(LastBlock, "cmatrix") = 1
    /\ Count(LastBlock, "normamps=") = 1

\* The header line of the block of a row, whatever the number of phases
IsHeaderOf(hline, line) ==
    LET name == replace(line.LibraryType, <<" ">>, <<>>)
        m == Len(name)
    IN  /\ Len(hline) = m + 7
        /\ SubSeq(hline, 1, 3) = <<"New", " ", "Linecode.">>
        /\ SubSeq(hline, 4, m + 3) = name
        /\ hline[m + 4] = " "
        /\ hline[m + 5] = "nphases="
        /\ hline[m + 6] \in {"1", "2", "3"}
        /\ hline[m + 7] = " "
    
\* C16: what get_linecodes returns, and what get_LineCode writes, holds exactly
\* one block per row of the table, in the order of the rows, each starting with
\* a header line naming the library type, the number of phases and the unit.
C16_OneBlockPerRecord ==
    /\ pc \in {"return", "done"} =>
          /\ Len(LineCode_Data) = Len(df)
          /\ \A k \in 1 .. Len(LineCode_Data) :
                IsHeaderOf(SubSeq(LinesOf(LineCode_Data[k])[1], 1,
                                  Len(LinesOf(LineCode_Data[k])[1]) - 1), df[k])
                /\ LinesOf(LineCode_Data[k])[1][Len(LinesOf(LineCode_Data[k])[1])] = "units=km"
    /\ pc = "done" => Len(LineCode_DataMod) = Len(df)

\* C17 as stated: the k-th serialized row of a reduced matrix holds k values.
C17_TriangularRows ==
    Emitted =>
        LET R == RowsOf(LineOf(LastBlock, "rmatrix"))
        IN  \A k \in 1 .. Len(R) : Len(R[k]) = k

\* C17 amended: every serialized row of a reduced matrix of m rows holds m
\* values, in the rmatrix, the xmatrix and the cmatrix line.
C17_FullRows ==
    Emitted =>
        LET R == RowsOf(LineOf(LastBlock, "rmatrix"))
            X == RowsOf(LineOf(LastBlock, "xmatrix"))
            C == RowsOf(LineOf(LastBlock, "cmatrix"))
        IN  /\ Len(R) = Len(Zcarson)
            /\ Len(X) = Len(Zcarson)
            /\ Len(C) = Len(Cmatrix)
            /\ \A k \in 1 .. Len(R) : Len(R[k]) = Len(Zcarson)
            /\ \A k \in 1 .. Len(X) : Len(X[k]) = Len(Zcarson)
            /\ \A k \in 1 .. Len(C) : Len(C[k]) = Len(Cmatrix)

\* C17 witness: a block was emitted for a reduced impedance matrix of three
\* rows, the second of which is written with three values.
C17_Witness ==
    /\ Emitted
    /\ Len(Zcarson) = 3
    /\ Len(RowsOf(LineOf(LastBlock, "rmatrix"))) = 3
    /\ Len(RowsOf(LineOf(LastBlock, "rmatrix"))[2]) = 3

\* ================================================================ add_lines

\* A dict: its keys in insertion order and the value of each key
EmptyDict == [keys |-> <<>>, vals |-> <<>>]

\* d[key] = v: a new key goes last, a known key keeps its place
DictSet(d, key, v) ==
    [keys |-> IF has(d.keys, key) THEN d.keys ELSE Append(d.keys, key),
     vals |-> SetItem(d.vals, key, v)]

\* The loop of ends over namesID from position k on (positions from 1, so
\* the index n of the source is k - 1). A name is <<objID, part>>, the two
\* sides of "__".
RECURSIVE EndsLoop(_, _, _, _)
EndsLoop(namesID, k, lines, prevID) ==
    IF k > Len(namesID) THEN lines
    ELSE LET objID == namesID[k][1]
         IN  IF k = 1
             THEN EndsLoop(namesID, k + 1, DictSet(lines, objID, <<k>>), objID)
             ELSE IF prevID = objID
             THEN EndsLoop(namesID, k + 1, lines, prevID)
             ELSE EndsLoop(namesID, k + 1,
                           DictSet(DictSet(lines, prevID, Append(lines.vals[prevID], k - 1)),
                                   objID, <<k>>),
                           objID)

\* The dict lines of ends
ends_lines(namesID) == EndsLoop(namesID, 1, EmptyDict, "")

\* sum(lineslen[i:n]) with n = j + 1
sum(lineslen, i, j) == SumSeq(SubSeq(lineslen, i, j))

\* The dict linelen of ends
ends_linelen(lines, lineslen) ==
    [nameID \in {lines.keys[k] : k \in 1 .. Len(lines.keys)} |->
        LET ij == lines.vals[nameID]
        IN  IF Len(ij) = 2 THEN sum(lineslen, ij[1], ij[2]) ELSE lineslen[ij[1]]]

\* The line object add_lines builds for the key nameID: X2, Y2 of row j,
\* LENGTH from linelen, the other attributes of row i
line_of(lay, IDends, lineLen, nameID) ==
    LET ij == IDends.vals[nameID]
        i == ij[1]
        j == IF Len(ij) = 1 THEN i ELSE ij[2]
    IN  [ICEobjID |-> lay.ICEobjID[i],
         X1 |-> lay.X1[i], Y1 |-> lay.Y1[i],
         X2 |-> lay.X2[j], Y2 |-> lay.Y2[j],
         LENGTH |-> lineLen[nameID]]

\* The loop of add_lines over the keys of IDends from position k on: every
\* line object is handed to add_edge.
RECURSIVE LinesLoop(_, _, _, _, _, _, _)
LinesLoop(lay, IDends, lineLen, k, V, E, objs) ==
    IF k > Len(IDends.keys)
    THEN [vertices |-> V, edges |-> E, lineobjs |-> objs]
    ELSE LET line == line_of(lay, IDends, lineLen, IDends.keys[k])
             r == add_edge(V, E, line, 2 * Len(E) + 1, 2 * Len(E) + 2)
         IN  LinesLoop(lay, IDends, lineLen, k + 1, r.vertices, r.edges, Append(objs, line))

\* add_lines for one layer of lines
add_lines(lay, V, E) ==
    LET IDends == ends_lines(lay.ICEobjID)
        lineLen == ends_linelen(IDends, lay.LENGTH)
    IN  LinesLoop(lay, IDends, lineLen, 1, V, E, <<>>)

\* Identifiers of the lines of a layer, in the order of the layer
LineIDs == <<"L1", "L2", "L3", "L4", "L5">>

\* Ends of segments: two spots that are not within tolerance of each other
SegXS == {0, Tol}

\* Lengths of segments
SegLens == {1, 2}

\* The rows of a layer are the segments of its lines, the segments of one
\* line next to each other: row k + 1 belongs to the line of row k or starts
\* the next line.
LineNumbers(m) ==
    {f \in [1 .. m -> 1 .. m] :
        /\ f[1] = 1
        /\ \A k \in 1 .. (m - 1) : f[k + 1] \in {f[k], f[k] + 1}}

\* The part number of row k within its line
PartOf(f, k) == Cardinality({j \in 1 .. k : f[j] = f[k]}) - 1

Layers(maxsegs) ==
    UNION {
        {[line_layer |-> "overH_LVlines",
          ICEobjID |-> [k \in 1 .. m |-> <<LineIDs[f[k]], PartOf(f, k)>>],
          LENGTH |-> len,
          X1 |-> x1, Y1 |-> [k \in 1 .. m |-> 0],
          X2 |-> x2, Y2 |-> [k \in 1 .. m |-> 0]] :
            f \in LineNumbers(m), len \in [1 .. m -> SegLens],
            x1 \in [1 .. m -> SegXS], x2 \in [1 .. m -> SegXS]} :
        m \in 1 .. maxsegs}

\* add_lines is called on an empty graph; one layer of the circuit has rows.
InitLines ==
    /\ GIdle
    /\ LIdle
    /\ MIdle
    /\ SIdle
    /\ qpc = "add_lines"
    /\ layer \in Layers(MaxSegs)
    /\ lineobjs = <<>>

\* CKTgraph.add_lines
AddLines ==
    /\ qpc = "add_lines"
    /\ LET r == add_lines(layer, vertices, edges)
       IN  /\ vertices' = r.vertices
           /\ edges' = r.edges
           /\ lineobjs' = r.lineobjs
    /\ qpc' = "done"
    /\ UNCHANGED <<odd_bucket, adj_matrix, hist, layer>>
    /\ UNCHANGED lvars
    /\ UNCHANGED mvars
    /\ UNCHANGED svars

NextLines == AddLines

SpecLines == InitLines /\ [][NextLines]_vars

\* The runs of a layer: the pairs <<i, j>> of the first and the last row of a
\* maximal stretch of rows with the same identifier before "__"
Runs(lay) ==
    LET ids == lay.ICEobjID
        m == Len(ids)
    IN  {ij \in (1 .. m) \X (1 .. m) :
            /\ ij[1] <= ij[2]
            /\ \A k \in ij[1] .. ij[2] : ids[k][1] = ids[ij[1]][1]
            /\ ij[1] > 1 => ids[ij[1] - 1][1] # ids[ij[1]][1]
            /\ ij[2] < m => ids[ij[2] + 1][1] # ids[ij[2]][1]}

\* The connector add_lines is to build for the run <<i, j>> of a layer
IsConnectorOf(obj, lay, ij) ==
    /\ obj.ICEobjID[1] = lay.ICEobjID[ij[1]][1]
    /\ obj.LENGTH = SumSeq(SubSeq(lay.LENGTH, ij[1], ij[2]))
    /\ obj.X1 = lay.X1[ij[1]]
    /\ obj.Y1 = lay.Y1[ij[1]]
    /\ obj.X2 = lay.X2[ij[2]]
    /\ obj.Y2 = lay.Y2[ij[2]]

\* C18: every run of rows of a layer that share the identifier before "__"
\* gives one connector, whose LENGTH is the sum of the lengths of the rows of
\* the run, which starts at X1, Y1 of the first row and ends at X2, Y2 of the
\* last row, whatever the place of the run in the layer.
C18_RunLengths ==
    qpc = "done" =>
        /\ Len(lineobjs) = Cardinality(Runs(layer))
        /\ \A ij \in Runs(layer) :
              Cardinality({k \in 1 .. Len(lineobjs) : IsConnectorOf(lineobjs[k], layer, ij)}) = 1

\* ================================================================ loadTx_matcher

\* The dict matcher: the SERVICE codes allowed for each SECCONN
matcher ==
    [conn \in {"OD", "SP", "4D"} |->
        IF conn = "OD" THEN {123, 12, 23, 13}
        ELSE IF conn = "SP" THEN {1, 2, 3, 12, 23, 13}
        ELSE {123}]

\* old in s
contains_text(s, old) == \E i \in 1 .. Len(s) : StartsWith(s, i, old)

\* str.strip(chars): the characters of chars are taken off both ends
strip(s, chars) ==
    LET K == {i \in 1 .. Len(s) : s[i] \notin chars}
    IN  IF K = {} THEN <<>>
        ELSE SubSeq(s, CHOOSE i \in K : \A j \in K : i <= j,
                       CHOOSE i \in K : \A j \in K : j <= i)

\* list.index(v) by value: the first position that holds v, 0 if none (ValueError)
list_index(list, v) ==
    IF \E i \in 1 .. Len(list) : list[i] = v
    THEN CHOOSE i \in 1 .. Len(list) :
            list[i] = v /\ \A j \in 1 .. (i - 1) : list[j] # v
    ELSE 0

\* "_T" in c
is_odd(c) == contains_text(c, <<"_", "T">>)

\* The list loadsfree: the identifiers with "_T", stripped of "_" and "T"
loadsfree_of(ids) ==
    LET odd == SelectSeq(ids, is_odd)
    IN  [k \in 1 .. Len(odd) |-> strip(odd[k], {"_", "T"})]

\* The loop of loadTx_matcher over loadsfree from position k on: the answer
\* returned, or the exception that leaves the method
RECURSIVE MatchLoop(_, _, _, _)
MatchLoop(loadsfree, k, loads, txs) ==
    IF k > Len(loadsfree) THEN "True"
    ELSE LET v == loadsfree[k]
             i == list_index(txs.ICEobjID, v)
             j == list_index(loads.ICEobjID, v \o <<"_", "T">>)
         IN  IF i = 0 \/ j = 0 THEN "ValueError"
             ELSE IF txs.SECCONN[i] \notin DOMAIN matcher THEN "False"
             ELSE IF loads.SERVICE[j] \notin matcher[txs.SECCONN[i]] THEN "False"
             ELSE MatchLoop(loadsfree, k + 1, loads, txs)

\* CKTqgis.loadTx_matcher; a layer that does not exist gives KeyError, which
\* is caught
loadTx_matcher(loads, txs) ==
    IF ~loads.exists \/ ~txs.exists THEN "False"
    ELSE MatchLoop(loadsfree_of(loads.ICEobjID), 1, loads, txs)

\* Identifiers of transformers
TxIDs == {<<"X", "1">>, <<"T", "2">>}

\* Identifiers of LV loads: the loads right over a transformer carry its
\* identifier and "_T"; the others are named freely
LoadIDs == {<<"X", "1", "_", "T">>, <<"T", "2", "_", "T">>, <<"L", "7">>}

SERVICEs == {123, 12, 1}
SECCONNs == {"OD", "SP", "4D"}

\* The layer "LV_load", or its absence
LoadLayers ==
    {[exists |-> FALSE, ICEobjID |-> <<>>, SERVICE |-> <<>>]}
    \cup UNION {
        {[exists |-> TRUE, ICEobjID |-> ids, SERVICE |-> srv] :
            ids \in [1 .. m -> LoadIDs], srv \in [1 .. m -> SERVICEs]} :
        m \in 0 .. MaxLoads}

\* The layer "Distribution_transformers", or its absence
TxLayers ==
    {[exists |-> FALSE, ICEobjID |-> <<>>, SECCONN |-> <<>>]}
    \cup UNION {
        {[exists |-> TRUE, ICEobjID |-> ids, SECCONN |-> conn] :
            ids \in [1 .. m -> TxIDs], conn \in [1 .. m -> SECCONNs]} :
        m \in 0 .. MaxLoads}

InitMatch ==
    /\ GIdle
    /\ LIdle
    /\ AIdle
    /\ SIdle
    /\ qpc = "loadTx_matcher"
    /\ loadsdata \in LoadLayers
    /\ txsdata \in TxLayers
    /\ matched = "None"

\* CKTqgis.loadTx_matcher
LoadTxMatcher ==
    /\ qpc = "loadTx_matcher"
    /\ matched' = loadTx_matcher(loadsdata, txsdata)
    /\ qpc' = "done"
    /\ UNCHANGED <<loadsdata, txsdata>>
    /\ UNCHANGED gvars
    /\ UNCHANGED lvars
    /\ UNCHANGED avars
    /\ UNCHANGED svars

NextMatch == LoadTxMatcher

SpecMatch == InitMatch /\ [][NextMatch]_vars

\* An LV load that carries the "_T" mark at the end of its identifier
Marked(c) == Len(c) >= 2 /\ SubSeq(c, Len(c) - 1, Len(c)) = <<"_", "T">>

\* The SERVICE code of the load at row j is allowed for the SECCONN of the
\* transformer the load is named after
Aligned(loads, txs, j) ==
    LET name == SubSeq(loads.ICEobjID[j], 1, Len(loads.ICEobjID[j]) - 2)
    IN  \E i \in 1 .. Len(txs.ICEobjID) :
            /\ txs.ICEobjID[i] = name
            /\ txs.SECCONN[i] \in DOMAIN matcher
            /\ loads.SERVICE[j] \in matcher[txs.SECCONN[i]]

AllAligned(loads, txs) ==
    /\ loads.exists
    /\ txs.exists
    /\ \A j \in 1 .. Len(loads.ICEobjID) :
          Marked(loads.ICEobjID[j]) => Aligned(loads, txs, j)

\* C19: loadTx_matcher ends with a boolean for every input: True when every
\* LV load marked "_T" has a SERVICE code allowed for the SECCONN of the
\* transformer it is named after, False in every other case (a missing layer
\* included).
C19_MatcherDecides ==
    qpc = "done" =>
        /\ matched \in {"True", "False"}
        /\ matched = "True" <=> AllAligned(loadsdata, txsdata)

\* ================================================================ split_overHLVlines

\* The attributes of a layer of lines that are lists
ListAttrs == {"_ICEobjID", "_TYPE", "_LENGTH", "_INSULEV"}

servicetype == {"DPX", "TPX", "QPX"}

\* the loop over enumerate(oh_lvlayer["_TYPE"]): the indices of the rows of a
\* service type, in increasing order
RECURSIVE serv_i_from(_, _)
serv_i_from(types, i) ==
    IF i > Len(types) THEN <<>>
    ELSE IF types[i] \in servicetype THEN <<i>> \o serv_i_from(types, i + 1)
    ELSE serv_i_from(types, i + 1)

\* serv_fts: the values of the list ft at the indices serv_i
serv_fts(ft, serv_i) == [k \in 1 .. Len(serv_i) |-> ft[serv_i[k]]]

\* list.pop(i)
pop(ft, i) == [k \in 1 .. (Len(ft) - 1) |-> IF k < i THEN ft[k] ELSE ft[k + 1]]

\* The pops at the indices of serv_i taken in increasing order, every index
\* after the first one shifted by the rows already popped
RECURSIVE pop_in_order(_, _)
pop_in_order(ft, serv_i) ==
    IF serv_i = <<>> THEN ft
    ELSE IF Head(serv_i) > Len(ft) THEN pop_in_order(ft, Tail(serv_i))
    ELSE pop_in_order(pop(ft, Head(serv_i)), Tail(serv_i))

\* serv_i.sort(reverse=True) and the pops at its indices, the largest first
RECURSIVE pop_reversed(_, _)
pop_reversed(ft, serv_i) ==
    IF serv_i = <<>> THEN ft
    ELSE pop_reversed(pop(ft, serv_i[Len(serv_i)]), SubSeq(serv_i, 1, Len(serv_i) - 1))

\* type(ft) is list and len(ft) != 0
is_filled(lay, attr) == attr \in ListAttrs /\ Len(lay[attr]) # 0

\* OH_LVlines.split_overHLVlines: the overhead layer and the service layer
\* as the call leaves them
split_overHLVlines(oh, service) ==
    LET serv_i == serv_i_from(oh._TYPE, 1)
    IN  [oh_lvlayer |->
            [attr \in DOMAIN oh |->
                IF is_filled(oh, attr) THEN pop_reversed(oh[attr], serv_i) ELSE oh[attr]],
         service_LV |->
            [attr \in DOMAIN service |->
                IF is_filled(oh, attr) THEN serv_fts(oh[attr], serv_i) ELSE service[attr]]]

\* TYPE of the rows of the overhead LV layer
TYPEs == {"DPX", "TPX", "QPX", "BARE"}

\* The overhead LV layers set_attributes_lines fills: one value per row in
\* every attribute it sets, attributes it does not set left empty
OHLayers ==
    UNION {
        {[_line_layer |-> "overH_LVlines",
          _ICEobjID |-> [k \in 1 .. m |-> k],
          _TYPE |-> t,
          _LENGTH |-> len,
          _INSULEV |-> <<>>] :
            t \in [1 .. m -> TYPEs], len \in [1 .. m -> SegLens]} :
        m \in 0 .. MaxRows}

\* serv_LVlines(): a layer with empty attributes
EmptyServiceLayer ==
    [_line_layer |-> "service_LVlines",
     _ICEobjID |-> <<>>, _TYPE |-> <<>>, _LENGTH |-> <<>>, _INSULEV |-> <<>>]

InitSplit ==
    /\ GIdle
    /\ LIdle
    /\ AIdle
    /\ MIdle
    /\ qpc = "split_overHLVlines"
    /\ oh_given \in OHLayers
    /\ oh_lvlayer = oh_given
    /\ service_LV = EmptyServiceLayer

\* OH_LVlines.split_overHLVlines, as set_attributes_lines calls it
SplitOverHLVlines ==
    /\ qpc = "split_overHLVlines"
    /\ LET r == split_overHLVlines(oh_lvlayer, service_LV)
       IN  /\ oh_lvlayer' = r.oh_lvlayer
           /\ service_LV' = r.service_LV
    /\ qpc' = "done"
    /\ UNCHANGED oh_given
    /\ UNCHANGED gvars
    /\ UNCHANGED lvars
    /\ UNCHANGED avars
    /\ UNCHANGED mvars

NextSplit == SplitOverHLVlines

SpecSplit == InitSplit /\ [][NextSplit]_vars

\* The rows of the layer as given whose TYPE is a service type
ServiceRows == {i \in 1 .. Len(oh_given._TYPE) : oh_given._TYPE[i] \in servicetype}

\* The other rows of the layer as given
OtherRows == {i \in 1 .. Len(oh_given._TYPE) : oh_given._TYPE[i] \notin servicetype}

\* C20: split_overHLVlines moves exactly the rows of TYPE DPX, TPX or QPX to
\* the service layer: afterwards no such row is left in the overhead layer,
\* and every attribute that was filled holds, in the overhead layer, its
\* values of the other rows and, in the service layer, its values of the moved
\* rows, both in the order given, so that the values of a row stay at one
\* index and every row is in exactly one of the two layers.
C20_SplitPartition ==
    qpc = "done" =>
        /\ \A i \in 1 .. Len(oh_lvlayer._TYPE) : oh_lvlayer._TYPE[i] \notin servicetype
        /\ \A i \in 1 .. Len(service_LV._TYPE) : service_LV._TYPE[i] \in servicetype
        /\ \A attr \in ListAttrs :
              /\ oh_lvlayer[attr] = Drop(oh_given[attr], ServiceRows, 1)
              /\ service_LV[attr] = Drop(oh_given[attr], OtherRows, 1)
        /\ Len(oh_lvlayer._ICEobjID) + Len(service_LV._ICEobjID) = Len(oh_given._ICEobjID)

\* C20 witness: the first and the third of three rows were moved, the second stayed.
C20_Witness ==
    /\ qpc = "done"
    /\ Len(oh_given._TYPE) = 3
    /\ ServiceRows = {1, 3}
    /\ service_LV._ICEobjID = <<1, 3>>
    /\ oh_lvlayer._ICEobjID = <<2>>
    /\ service_LV._TYPE = <<oh_given._TYPE[1], oh_given._TYPE[3]>>

\* ================================================================ add_vertex and add_edge claims

\* The call recorded last in the history after a step
Call == hist'[Len(hist')]

\* The step is one call of the operation op
Calls(op) == Len(hist') = Len(hist) + 1 /\ Call.op = op

\* Some stored point entity of one of the classes lies within tolerance of v
IncumbentOf(v, classes) ==
    \E i \in 1 .. Len(vertices) : Eq(vertices[i], v) /\ vertices[i].kind \in classes

\* C21: a light candidate (plain Vertex, Bus or Node) passed to add_vertex
\* while a Transformer, Load or Bus incumbent lies within tolerance is
\* discarded: the point collection, the connector list and the odd bucket
\* are unchanged by the call.
C21_LightCandidateDiscarded ==
    [][(/\ Calls("add_vertex")
        /\ IsLight(Call.v)
        /\ IncumbentOf(Call.v, {"Transformer", "Load", "Bus"}))
       => (/\ vertices' = vertices
           /\ edges' = edges
           /\ odd_bucket' = odd_bucket)]_vars

\* v is, as an object, an element of the point collection after the step
StoredAfter(v) == \E i \in 1 .. Len(vertices') : vertices'[i].oid = v.oid

\* The stored point entities within tolerance of v, by position
Incumbents(v) == {i \in 1 .. Len(vertices) : Eq(vertices[i], v)}

\* C22: in add_vertex a Node incumbent within tolerance is replaced by any
\* light candidate, and a generic-Vertex incumbent is replaced when the
\* candidate is a Bus but kept when the candidate is a plain Vertex or a
\* Node; after a replacement the incumbent is no longer in the point
\* collection and the candidate is.
C22_LightReplacement ==
    [][(Calls("add_vertex") /\ IsLight(Call.v)) =>
          \A i \in Incumbents(Call.v) :
              LET vold == vertices[i]
                  v == Call.v
                  replaced == ~StoredAfter(vold) /\ StoredAfter(v)
              IN  /\ vold.kind = "Node" => replaced
                  /\ (vold.kind = "Vertex" /\ v.kind = "Bus") => replaced
                  /\ (vold.kind = "Vertex" /\ v.kind \in {"Vertex", "Node"})
                        => StoredAfter(vold)]_vars

\* C23: in add_vertex a Transformer candidate colliding with a Load incumbent
\* replaces it in the point collection, while a Load candidate colliding with
\* a Transformer or Load incumbent leaves the point collection unchanged and
\* is recorded in the odd bucket under its own identifier.
C23_HeavyCollision ==
    [][Calls("add_vertex") =>
          LET v == Call.v
          IN  /\ v.kind = "Transformer" =>
                    \A i \in Incumbents(v) :
                        vertices[i].kind = "Load" =>
                            ~StoredAfter(vertices[i]) /\ StoredAfter(v)
              /\ (v.kind = "Load" /\ IncumbentOf(v, {"Transformer", "Load"})) =>
                    /\ vertices' = vertices
                    /\ v.ICEobjID \in DOMAIN odd_bucket'
                    /\ odd_bucket'[v.ICEobjID].oid = v.oid]_vars

\* The coordinates of the two ends of a line given to add_edge
FromEnd(chainObj) == [X1 |-> chainObj.X1, Y1 |-> chainObj.Y1]
ToEnd(chainObj) == [X1 |-> chainObj.X2, Y1 |-> chainObj.Y2]

\* The first k elements of V, or all of V when it has fewer
Prefix(V, k) == [i \in 1 .. (IF k < Len(V) THEN k ELSE Len(V)) |-> V[i]]

\* One endpoint resolved against the point collection V into V2 with the
\* reference ref: an entity of V within tolerance is referenced and V is left
\* as it is, or else a new Node with the coordinates of the endpoint is
\* appended and referenced.
Resolved(V, end, V2, ref) ==
    IF \E i \in 1 .. Len(V) : Eq(V[i], end)
    THEN /\ V2 = V
         /\ \E i \in 1 .. Len(V) : V[i] = ref /\ Eq(V[i], end)
    ELSE /\ V2 = Append(V, ref)
         /\ ref.kind = "Node" /\ ref.X1 = end.X1 /\ ref.Y1 = end.Y1

\* C24: add_edge resolves each endpoint separately (an existing entity within
\* tolerance is referenced and nothing is added, otherwise a new Node is
\* appended and referenced), then appends the connector to the connector
\* list; existing point entities are never removed, replaced or reordered.
C24_AddEdgeResolvesEndpoints ==
    [][Calls("add_edge") =>
          LET e == edges'[Len(edges')]
          IN  /\ edges' = Append(edges, e)
              /\ e.ICEobjID = Call.v.ICEobjID
              /\ Prefix(vertices', Len(vertices)) = vertices
              /\ \E V1 \in {vertices, Prefix(vertices', Len(vertices) + 1)} :
                    /\ Resolved(vertices, FromEnd(Call.v), V1, e._from_vertex)
                    /\ Resolved(V1, ToEnd(Call.v), vertices', e._to_vertex)]_vars

\* C24 witness: a connector was added whose first end references a stored
\* Transformer and whose second end is a new Node appended by the call.
C24_Witness ==
    /\ hist # <<>>
    /\ hist[Len(hist)].op = "add_edge"
    /\ edges[Len(edges)]._from_vertex.kind = "Transformer"
    /\ edges[Len(edges)]._to_vertex.kind = "Node"
    /\ Len(vertices) = Len(hist[Len(hist)].pre) + 1
    /\ vertices[Len(vertices)] = edges[Len(edges)]._to_vertex

\* ================================================================ adjacency claims

\* The stored connectors whose two ends are the stored entities a and b
\* (an end is an entity when Vertex.__eq__ says so)
Joining(a, b) ==
    {k \in 1 .. Len(edges) :
        \/ Eq(edges[k]._from_vertex, a) /\ Eq(edges[k]._to_vertex, b)
        \/ Eq(edges[k]._from_vertex, b) /\ Eq(edges[k]._to_vertex, a)}

\* C25: for every pair of distinct stored point entities with indices i and
\* j, the cell M[i][j] of the adjacency matrix equals the number of stored
\* connectors whose two endpoints are those two entities.
C25_CellCountsConnectors ==
    LET r == adjacency_matrix(vertices, edges)
    IN  r.ok =>
            \A i, j \in 1 .. Len(vertices) :
                i # j => r.Adj[i][j] = Cardinality(Joining(vertices[i], vertices[j]))

\* The number of connector ends that join the stored entities a and b, seen
\* from a (a connector from a to a counts twice)
EndsJoining(a, b) ==
    Cardinality({k \in 1 .. Len(edges) :
                    Eq(edges[k]._from_vertex, a) /\ Eq(edges[k]._to_vertex, b)})
    + Cardinality({k \in 1 .. Len(edges) :
                    Eq(edges[k]._to_vertex, a) /\ Eq(edges[k]._from_vertex, b)})

\* C26: adjacency_dict returns, for every stored point entity, a neighbour
\* list under that entity's identifier that holds exactly the entities joined
\* to it by a connector, with multiplicity; its length equals the row sum of
\* that entity in the adjacency matrix.
C26_NeighbourLists ==
    LET d == adjacency_dict(vertices, edges)
        m == adjacency_matrix(vertices, edges)
    IN  /\ d.ok
        /\ \A i \in 1 .. Len(vertices) :
              LET nb == d.adj[vertices[i].ICEobjID]
              IN  /\ \A j \in 1 .. Len(vertices) :
                        Cardinality({p \in 1 .. Len(nb) : Eq(nb[p], vertices[j])})
                            = EndsJoining(vertices[i], vertices[j])
                  /\ m.ok => Len(nb) = SumSeq(m.Adj[i])

\* C28: in every state reachable by add_vertex and add_edge calls in any
\* order, adjacency_matrix completes without error, and a call of it does not
\* change the point collection, the connector list or the odd bucket.
C28_AdjacencyMatrixCompletes ==
    /\ [](adjacency_matrix(vertices, edges).ok)
    /\ [][Calls("adjacency_matrix") =>
             (/\ Call.outcome = "returned"
              /\ vertices' = vertices
              /\ edges' = edges
              /\ odd_bucket' = odd_bucket)]_vars

\* ================================================================ serialization claims

\* The block appended last, after the clean-up of get_LineCode
LastBlockMod == LineCode_DataMod[Len(LineCode_DataMod)]

\* The matrix literal of the rows texts, without blanks: one opening bracket,
\* the rows in order with one row separator between two consecutive rows,
\* and one closing bracket
Literal(texts) ==
    <<"[">>
    \o concat([i \in 1 .. Len(texts) |->
                  (IF i > 1 THEN <<"|">> ELSE <<>>) \o texts[i]])
    \o <<"]">>

\* What a matrix line "~ label = ..." holds after the sign "=", without blanks
Written(mline) == SelectSeq(SubSeq(mline, 7, Len(mline)), NotBlank)

\* C27: for every reduced matrix of n rows, whatever the row values, the text
\* produced by get_linecodes followed by the clean-up of get_LineCode is one
\* opening bracket, the n rows in order with values separated by spaces,
\* exactly one row-separator token between each two consecutive rows, and
\* one closing bracket (rmatrix and cmatrix lines of matrices of one row or
\* more).
C27_MatrixLiteral ==
    (pc = "done" /\ LineCode_DataMod # <<>>) =>
        /\ Zcarson # <<>> =>
              Written(LineOf(LastBlockMod, "rmatrix")) = Literal(RealTexts(Zcarson))
        /\ Cmatrix # <<>> =>
              Written(LineOf(LastBlockMod, "cmatrix")) = Literal(RealTexts(Cmatrix))

\* ================================================================ record claims

\* The values the name nphases can hold when a row is reached, left by the
\* rows before it
Bindings == 1 .. 3

\* C29: the number of phases written in the header of a row's block is
\* determined by the row alone: whatever the rows placed before it have left
\* in nphases, the value assigned for the row and written in its header is
\* the same.
C29_PhasesFromRecordAlone ==
    (pc = "assemble" /\ nphases # 0) =>
        \A bound \in Bindings :
            phases(split(set_LibraryType(df[n].LibraryType), "_"), df[n], bound) = nphases

\* M is square and symmetric and has no row and no column entirely zero
SquareSymmetricNoZero(M) ==
    /\ \A i \in 1 .. Len(M) : Len(M[i]) = Len(M)
    /\ \A i, j \in 1 .. Len(M) : M[i][j] = M[j][i]
    /\ \A i \in 1 .. Len(M) : \E j \in 1 .. Len(M) : M[i][j] # Complex(0, 0)
    /\ \A j \in 1 .. Len(M) : \E i \in 1 .. Len(M) : M[i][j] # Complex(0, 0)

\* C30: for every row of the table, the reduced impedance matrix and the
\* reduced capacitance matrix are each square and symmetric and contain no
\* all-zero row and no all-zero column.
C30_ReducedMatricesWellFormed ==
    pc = "serialize" =>
        /\ SquareSymmetricNoZero(Zcarson)
        /\ SquareSymmetricNoZero(Cmatrix)

\* C30 witness: a row measured for the pair phase R - neutral alone was
\* reduced to two 2x2 matrices with a zero diagonal.
C30_Witness ==
    /\ pc = "serialize"
    /\ df[n].R_RN # 0 /\ df[n].R_RR = 0 /\ df[n].R_NN = 0
    /\ Len(Zcarson) = 2 /\ Len(Cmatrix) = 2
    /\ Zcarson[1][1] = Complex(0, 0) /\ Zcarson[1][2] # Complex(0, 0)
    /\ Cmatrix[2][2] = Complex(0, 0) /\ Cmatrix[2][1] # Complex(0, 0)

====
